---- MODULE Spec2Model ----
(***************************************************************************)
(* The update scheduler of the energy dashboard (src/src/app.py), the      *)
(* background refresh thread it launches, the three ingestion pipelines    *)
(* the thread runs (src/src/data_update.py) and the memoized loaders the   *)
(* interactive render reads through (src/src/data/loaders.py).             *)
(*                                                                         *)
(* A render is one run of the script app.py for one browser session.  It   *)
(* is modelled in two steps, split where the script first reads the        *)
(* thread's liveness (line 43) and where it reads it again (line 95):      *)
(*   RenderGate  lines 29-54   session init, refresh gate, reconciliation  *)
(*   RenderBody  lines 56-132  date bounds, sidebar, selection, fetch      *)
(* Steps of the refresh threads interleave freely with both.               *)
(*                                                                         *)
(* Next is the whole system.  The specifications that are model-checked   *)
(* are slices of it, each a restriction of Next to some of the sessions,   *)
(* selections, clock steps and environment answers:                        *)
(*   SpecGate     two sessions, the clock and the caches                   *)
(*   SpecSession  one session changing its selection, and its refresh      *)
(*                thread on every path through the three pipelines         *)
(*   SpecQueue    a session changing its selection beside a second one,    *)
(*                and the clock                                            *)
(*                                                                         *)
(* Python's None is the empty sequence <<>> and a value x that may be None *)
(* is the one-element sequence <<x>>.                                      *)
(***************************************************************************)
EXTENDS Integers, Sequences, FiniteSets, TLC

\* ---------------------------------------------------------------- bounds
\* Number of times the clock may advance in one behaviour.
MaxTicks == 2
\* Largest number of upsert batches one pipeline run is given.
MaxBatches == 2
\* Largest number of rows a paginated query matches.
MaxRows == 3500
\* Stored datetimes per calendar day.
SlotsPerDay == 2
\* Latest day of the month on which the freshness check runs.
MaxDay == 4
\* Largest number of records in one API payload.
MaxFetched == 2
\* Entries of REGION_COORDS the weather pipeline is run on.
MaxRegions == 3

\* ------------------------------------------------------ program constants
\* app.py:37  should_run_update(supabase, hours_interval=24)
HOURS_INTERVAL == 24
\* loaders.py:53  @st.cache_data(ttl=3600) on fetch_date_bounds
TTL_BOUNDS == 3600
\* loaders.py:79, 96, 116  @st.cache_data(ttl=300) on the range fetchers
TTL_RANGE == 300
\* loaders.py:6  PAGE_SIZE = 1000
PAGE_SIZE == 1000
\* data_update.py:93, 173, 268  batch_size = 500
BATCH_SIZE == 500

UpdateInterval == HOURS_INTERVAL * 3600

\* Browser sessions, each with its own st.session_state.
Sessions == {"s1", "s2"}

\* The three ingestion pipelines, in the order _run_data_updates calls them.
PipelineOrder == <<"carbon", "weather", "demand">>
Pipelines == {"carbon", "weather", "demand"}

\* The store table each pipeline upserts into.
TableOf(p) ==
  CASE p = "carbon"  -> "carbon_intensity"
    [] p = "weather" -> "weather"
    [] p = "demand"  -> "historic_demand"
Tables == {TableOf(p) : p \in Pipelines}

None == <<>>
Some(x) == <<x>>

\* What render_sidebar can return: (selected_regions, start_date, end_date).
\* An empty multiselect gives the empty region list.
Selections ==
  { [regions |-> <<>>,         start |-> 1, end |-> 1],
    [regions |-> <<"North Scotland">>, start |-> 1, end |-> 1],
    [regions |-> <<"North Scotland">>, start |-> 1, end |-> 2] }

\* "Multiple Regions": st.multiselect returns the chosen regions in the
\* order the user picked them, so one choice of regions comes in any order.
ReorderedSelections ==
  { [regions |-> <<"North Scotland", "South Scotland">>, start |-> 1, end |-> 1],
    [regions |-> <<"South Scotland", "North Scotland">>, start |-> 1, end |-> 1] }

VARIABLES
  now,                    \* wall clock, seconds
  ticks,                  \* how often the clock has advanced
  last_update_timestamp,  \* process-wide state of should_run_update; -1 = never
  cache,                  \* st.cache_data: key -> time of the store read, -1 = no entry
  store,                  \* table -> set of upserted batches
  data_update_started,    \* st.session_state.data_update_started, per session
  data_update_thread,     \* st.session_state.data_update_thread, per session
  data_update_applied,    \* st.session_state.data_update_applied, per session
  last_selected_regions,  \* st.session_state.last_selected_regions
  last_start_date,        \* st.session_state.last_start_date
  last_end_date,          \* st.session_state.last_end_date
  queued_selection,       \* st.session_state.queued_selection
  widget,                 \* the sidebar widgets' current values, per session
  rpc,                    \* where each session's script run stands
  rerun,                  \* st.rerun() was called: the script runs again at once
  clears,                 \* per session: how often it called st.cache_data.clear()
  obs,                    \* per session: what its current/last script run did
  call                    \* one call of a loader or pipeline function, on its own

appVars == << now, ticks, last_update_timestamp, cache, store,
              data_update_started, data_update_thread, data_update_applied,
              last_selected_regions, last_start_date, last_end_date,
              queued_selection, widget, rpc, rerun, clears, obs >>

vars == << appVars, call >>

sessionVars == << data_update_started, data_update_thread, data_update_applied,
                  last_selected_regions, last_start_date, last_end_date,
                  queued_selection, widget, rpc, rerun, clears, obs >>

\* -------------------------------------------------------- refresh thread
\* Where a pipeline's call stands.  "idle": not called yet; "ended": the
\* call is over.
Phases == {"idle", "checking", "fetching", "normalizing", "uploading", "ended"}
MidRun == {"checking", "fetching", "normalizing", "uploading"}

\* session_state.data_update_thread = None
NoThread ==
  [ status |-> "none",
    pstate |-> [p \in Pipelines |-> "idle"],
    starts |-> [p \in Pipelines |-> 0],   \* how often each was called
    result |-> "none",   \* how the last ended call ended
    batch  |-> 0,        \* batches the upload loop has sent
    nb     |-> 0 ]       \* batches the upload loop has to send

\* threading.Thread(target=_run_data_updates, daemon=True) after start()
NewThread == [NoThread EXCEPT !.status = "alive"]

\* thread and thread.is_alive()
is_alive(t) == t.status = "alive"

\* Position in PipelineOrder.
IndexOf(p) == CHOOSE i \in 1..Len(PipelineOrder) : PipelineOrder[i] = p

\* _run_data_updates (app.py 15-27) calls the three pipelines one after the
\* other in one thread: the pipeline the thread is in is the first, in call
\* order, that has not ended.
CurrentPipelines_Concurrent(t) == {p \in Pipelines : t.pstate[p] # "ended"}
CurrentPipelines(t) ==
  { p \in Pipelines :
      /\ t.pstate[p] # "ended"
      /\ \A q \in Pipelines : IndexOf(q) < IndexOf(p) => t.pstate[q] = "ended" }

\* The thread after pipeline p has ended with result r ("returned": the
\* call returned; "raised": an exception escaped the call).  Each call sits
\* in its own try/except Exception, so either way the thread goes on to the
\* next call, and it terminates after the last one.
run_data_updates_after_NoTry(t, p, r) ==
  LET t1 == [t EXCEPT !.pstate[p] = "ended", !.result = r,
                      !.batch = 0, !.nb = 0]
  IN  [t1 EXCEPT !.status =
         IF r = "raised" \/ \A q \in Pipelines : t1.pstate[q] = "ended"
         THEN "dead" ELSE "alive"]
run_data_updates_after(t, p, r) ==
  LET t1 == [t EXCEPT !.pstate[p] = "ended", !.result = r,
                      !.batch = 0, !.nb = 0]
  IN  [t1 EXCEPT !.status =
         IF \A q \in Pipelines : t1.pstate[q] = "ended"
         THEN "dead" ELSE "alive"]

\* ---- the gate of each pipeline
\* What the store answers to the gate's query:
\*   "store_error"  the client is None (unconfigured) or the request fails
\*   "missing"      some day of the month has no row / the table has no row
\*   "present"      every day of the month has a row / the table has rows
CheckResults == {"store_error", "missing", "present"}

\* carbon, weather: is_today_data_missing / is_weather_data_missing are
\* called outside any try (data_update.py 44, 129): a store error escapes
\* the pipeline; "not missing" returns at once.  demand: the latest-row
\* lookup sits in try/except (212-225) and only chooses the start date, so
\* the pipeline always goes on to fetch.
after_check_NoSkip(p, r) ==
  IF p = "demand" THEN "fetching"
  ELSE CASE r = "store_error" -> "raised"
         [] r = "present"     -> "fetching"
         [] r = "missing"     -> "fetching"
after_check(p, r) ==
  IF p = "demand" THEN "fetching"
  ELSE CASE r = "store_error" -> "raised"
         [] r = "present"     -> "returned"
         [] r = "missing"     -> "fetching"

\* ---- the fetch of each pipeline
\*   "fail"   the request raises, times out or has an error status
\*   "empty"  the request succeeds and carries no record
\*   "ok"     the request succeeds and carries records
FetchResults == {"fail", "empty", "ok"}

\* carbon (46-53): a failed request returns; a payload with no region goes
\* on to be parsed.  weather (133-166): every region's failure is caught;
\* with no record at all the run returns.  demand (230-246): a failed
\* request returns, so does an empty result.
after_fetch(p, r) ==
  CASE r = "fail"  -> "returned"
    [] r = "empty" -> IF p = "carbon" THEN "normalizing" ELSE "returned"
    [] r = "ok"    -> "normalizing"

\* ---- normalizing
\*   "parse_error"  building the records raises inside the pipeline's try
\*   "unguarded"    a statement outside every try raises
\*   "no_valid"     no record passes validation
\*   "ok"           there are rows to upload
NormalizeResults == {"parse_error", "unguarded", "no_valid", "ok"}

\* carbon: building records is guarded (55-72); pd.to_datetime, the fillna
\* and the df['forecast'] filter (74-82) are not; an empty frame returns
\* (84-86).  weather (167-170) and demand (249-264): nothing is guarded, and
\* nothing is filtered.
after_normalize(p, r) ==
  CASE r = "unguarded"   -> "raised"
    [] r = "parse_error" -> IF p = "carbon" THEN "returned" ELSE "raised"
    [] r = "no_valid"    -> IF p = "carbon" THEN "returned" ELSE "uploading"
    [] r = "ok"          -> "uploading"

\* ---- uploading
\*   "ok"         the batch is upserted
\*   "duplicate"  the upsert raises a duplicate-key error
\*   "error"      the upsert raises anything else or has an error status
UploadResults == {"ok", "duplicate", "error"}

\* The store after batch b of pipeline p was sent with result r (97, 177, 272).
upsert_Replace(st, p, b, r) ==
  IF r = "ok" THEN [st EXCEPT ![TableOf(p)] = {b}] ELSE st
upsert(st, p, b, r) ==
  IF r = "ok" THEN [st EXCEPT ![TableOf(p)] = @ \cup {b}] ELSE st

\* The thread of session s moves its pipeline p to nxt: a phase, or the
\* result the pipeline's call ends with.
Advance(s, p, nxt) ==
  data_update_thread' =
    [data_update_thread EXCEPT ![s] =
       IF nxt \in {"returned", "raised"}
       THEN run_data_updates_after(@, p, nxt)
       ELSE [@ EXCEPT !.pstate[p] = nxt]]

threadFrame ==
  UNCHANGED << now, ticks, last_update_timestamp, cache,
               data_update_started, data_update_applied,
               last_selected_regions, last_start_date, last_end_date,
               queued_selection, widget, rpc, rerun, clears, obs, call >>

\* _run_data_updates calls the next pipeline.
PipelineStart(s) ==
  /\ is_alive(data_update_thread[s])
  /\ \E p \in CurrentPipelines(data_update_thread[s]) :
       /\ data_update_thread[s].pstate[p] = "idle"
       /\ data_update_thread' =
            [data_update_thread EXCEPT ![s].pstate[p] = "checking",
                                       ![s].starts[p] = @ + 1]
  /\ UNCHANGED store
  /\ threadFrame

\* The pipeline's gate: freshness check, or latest-row lookup for demand.
CheckFreshness(s, r) ==
  /\ is_alive(data_update_thread[s])
  /\ \E p \in CurrentPipelines(data_update_thread[s]) :
       /\ data_update_thread[s].pstate[p] = "checking"
       /\ Advance(s, p, after_check(p, r))
  /\ UNCHANGED store
  /\ threadFrame

\* The request(s) to the external API.
Fetch(s, r) ==
  /\ is_alive(data_update_thread[s])
  /\ \E p \in CurrentPipelines(data_update_thread[s]) :
       /\ data_update_thread[s].pstate[p] = "fetching"
       /\ Advance(s, p, after_fetch(p, r))
  /\ UNCHANGED store
  /\ threadFrame

\* Reshaping the payload into n batches of rows.
Normalize(s, r, n) ==
  /\ is_alive(data_update_thread[s])
  /\ \E p \in CurrentPipelines(data_update_thread[s]) :
       /\ data_update_thread[s].pstate[p] = "normalizing"
       /\ LET nxt == after_normalize(p, r) IN
          IF nxt = "uploading"
          THEN data_update_thread' =
                 [data_update_thread EXCEPT ![s].pstate[p] = "uploading",
                                            ![s].batch = 0, ![s].nb = n]
          ELSE Advance(s, p, nxt)
  /\ UNCHANGED store
  /\ threadFrame

\* One turn of the batch loop: whatever the batch's result, the loop goes
\* on, and the pipeline returns after the last batch.
Upload(s, r) ==
  /\ is_alive(data_update_thread[s])
  /\ \E p \in CurrentPipelines(data_update_thread[s]) :
       LET t == data_update_thread[s]
           b == t.batch + 1
       IN  /\ t.pstate[p] = "uploading"
           /\ store' = upsert(store, p, b, r)
           /\ IF b >= t.nb
              THEN Advance(s, p, "returned")
              ELSE data_update_thread' =
                     [data_update_thread EXCEPT ![s].batch = b]
  /\ threadFrame

\* ------------------------------------------------------------ read caches
\* st.cache_data keeps one entry per function and argument tuple; the
\* _supabase argument is not part of the key.  fetch_demand_range is keyed
\* by (start, end); the carbon and weather fetchers by (start, end, regions)
\* with regions the tuple app.py builds on line 123.
BoundsKey == [fn |-> "fetch_date_bounds", start |-> 0, end |-> 0, regions |-> <<>>]
DemandKey(sel) ==
  [fn |-> "fetch_demand_range", start |-> sel.start, end |-> sel.end, regions |-> <<>>]
CarbonKey(sel) ==
  [fn |-> "fetch_carbon_range", start |-> sel.start, end |-> sel.end,
   regions |-> sel.regions]
WeatherKey(sel) ==
  [fn |-> "fetch_weather_range", start |-> sel.start, end |-> sel.end,
   regions |-> sel.regions]
RangeKeys(sel) == {DemandKey(sel), CarbonKey(sel), WeatherKey(sel)}
CacheKeys ==
  {BoundsKey} \cup
  UNION {RangeKeys(sel) :
           sel \in {x \in Selections \cup ReorderedSelections : Len(x.regions) > 0}}

\* The ttl the function of key k is decorated with.
TTLOf(k) == IF k = BoundsKey THEN TTL_BOUNDS ELSE TTL_RANGE

\* @st.cache_data(ttl=...): the entry of key k is served while it is younger
\* than ttl seconds.
cache_hit_NoTTL(c, k, t) == c[k] >= 0
cache_hit_Never(c, k, t) == FALSE
cache_hit(c, k, t) == c[k] >= 0 /\ t - c[k] < TTLOf(k)

\* st.cache_data.clear()
cache_clear == [k \in CacheKeys |-> -1]

\* The cache after the function of each key in ks ran at time t.
cache_store(c, ks, t) == [k \in CacheKeys |-> IF k \in ks THEN t ELSE c[k]]

\* ---------------------------------------------------------- refresh gate
\* should_run_update(supabase, hours_interval): a refresh is due when none
\* has run in this process or hours_interval hours have passed since the
\* last one.
should_run_update(t, last, hours) == last < 0 \/ t - last >= hours * 3600

\* The process-wide timestamp after a due-check made at time t.
update_timestamp(t, last, hours) ==
  IF should_run_update(t, last, hours) THEN t ELSE last

\* app.py 37: the gate of one render, for a session whose started flag is
\* `started`.  The flag short-circuits the due-check.
gate_fires(started, t, last) ==
  ~started /\ should_run_update(t, last, HOURS_INTERVAL)

\* app.py 43-47: the render reconciles when its session's thread is not
\* alive and a refresh was started and not yet applied.
must_reconcile_Success(t, started, applied) ==
  ~is_alive(t) /\ started /\ ~applied /\ t.result # "raised"
must_reconcile_NoApplied(t, started, applied) == ~is_alive(t) /\ started
must_reconcile(t, started, applied) == ~is_alive(t) /\ started /\ ~applied

\* What a script run has done so far.
NoObs ==
  [ forced    |-> FALSE,   \* it is the run st.rerun() forced
    effective |-> None,    \* the selection it fetched for
    display   |-> "none" ] \* "rows", "warning" (no region) or "error"

\* Lines 29-54 of one script run of session s.  sel is what the sidebar
\* widgets hold when the run starts: the user's new choice, or the values
\* they already held when the run is a rerun or the session's first.
RenderGate(s, sel) ==
  /\ rpc[s] = "idle"
  /\ (rerun[s] \/ last_selected_regions[s] = None) => sel = widget[s]
  /\ LET fires   == gate_fires(data_update_started[s], now, last_update_timestamp)
         thread  == IF fires THEN NewThread ELSE data_update_thread[s]
         started == data_update_started[s] \/ fires
         recon   == must_reconcile(thread, started, data_update_applied[s])
     IN  /\ last_update_timestamp' =
              IF data_update_started[s] THEN last_update_timestamp
              ELSE update_timestamp(now, last_update_timestamp, HOURS_INTERVAL)
         /\ data_update_thread' = [data_update_thread EXCEPT ![s] = thread]
         /\ data_update_started' = [data_update_started EXCEPT ![s] = started]
         /\ data_update_applied' =
              [data_update_applied EXCEPT ![s] = @ \/ recon]
         /\ cache' = IF recon THEN cache_clear ELSE cache
         /\ clears' = [clears EXCEPT ![s] = IF recon THEN @ + 1 ELSE @]
         /\ rerun' = [rerun EXCEPT ![s] = recon]
         /\ rpc' = [rpc EXCEPT ![s] = IF recon THEN "idle" ELSE "body"]
         /\ obs' = [obs EXCEPT ![s] = [NoObs EXCEPT !.forced = rerun[s]]]
  /\ widget' = [widget EXCEPT ![s] = sel]
  /\ UNCHANGED << now, ticks, store, last_selected_regions, last_start_date,
                  last_end_date, queued_selection, call >>

\* app.py 85-91
selection_changed(lr, ls, le, sel) ==
  /\ lr # None
  /\ \/ sel.regions # lr[1]
     \/ Some(sel.start) # ls
     \/ Some(sel.end) # le

\* app.py 95: queue the selection only while the thread is alive.
use_previous_Always(alive, changed) == changed
use_previous(alive, changed) == alive /\ changed

\* app.py 105-112.  `last_selected_regions` is tested for truth: None and
\* the empty list both fail the test.  Dates are always true.
effective_selection(prev, lr, ls, le, sel) ==
  IF prev /\ lr # None /\ Len(lr[1]) > 0
  THEN [ regions |-> lr[1],
         start   |-> IF ls # None THEN ls[1] ELSE sel.start,
         end     |-> IF le # None THEN le[1] ELSE sel.end ]
  ELSE sel

\* app.py 38-44: after thread.start() the script only reads is_alive() for
\* the notice; it never joins the thread t, so the body runs as soon as the
\* script is there.
script_proceeds_Join(pc, t) == pc = "body" /\ ~is_alive(t)
script_proceeds(pc, t) == pc = "body"

\* The memoized functions under observation: reads holds the keys whose
\* function body the latest script body ran, each a store read.
cache_data_log == [fn |-> "st.cache_data", reads |-> {}]

\* app.py 124-126 calls the demand, the carbon and the weather fetcher in
\* that order: the first of them that is not served from the cache.
first_miss(sel, misses) ==
  IF DemandKey(sel) \in misses THEN DemandKey(sel)
  ELSE IF CarbonKey(sel) \in misses THEN CarbonKey(sel)
  ELSE WeatherKey(sel)

\* Lines 56-132 of the script run.  store_ok: the range fetchers' store
\* reads succeed (fetch_date_bounds catches its own store errors).
RenderBody(s, store_ok) ==
  /\ script_proceeds(rpc[s], data_update_thread[s])
  /\ LET sel     == widget[s]
         thread  == data_update_thread[s]
         hitB    == cache_hit(cache, BoundsKey, now)
         cacheB  == IF hitB THEN cache ELSE cache_store(cache, {BoundsKey}, now)
         changed == selection_changed(last_selected_regions[s],
                       last_start_date[s], last_end_date[s], sel)
         prev    == use_previous(is_alive(thread), changed)
         eff     == effective_selection(prev, last_selected_regions[s],
                       last_start_date[s], last_end_date[s], sel)
         misses  == IF Len(eff.regions) > 0
                    THEN {k \in RangeKeys(eff) : ~cache_hit(cacheB, k, now)}
                    ELSE {}
         failed  == misses # {} /\ ~store_ok
         ran     == (IF hitB THEN {} ELSE {BoundsKey}) \cup
                    (IF failed THEN {first_miss(eff, misses)} ELSE misses)
     IN  /\ queued_selection' =
              [queued_selection EXCEPT ![s] = IF prev THEN Some(sel) ELSE @]
         /\ last_selected_regions' =
              [last_selected_regions EXCEPT ![s] =
                 IF prev THEN @ ELSE Some(sel.regions)]
         /\ last_start_date' =
              [last_start_date EXCEPT ![s] = IF prev THEN @ ELSE Some(sel.start)]
         /\ last_end_date' =
              [last_end_date EXCEPT ![s] = IF prev THEN @ ELSE Some(sel.end)]
         /\ cache' = IF failed THEN cacheB ELSE cache_store(cacheB, misses, now)
         /\ call' = IF call.fn = "st.cache_data"
                    THEN [call EXCEPT !.reads = ran] ELSE call
         /\ obs' = [obs EXCEPT ![s].effective = Some(eff),
                               ![s].display =
                                  IF Len(eff.regions) = 0 THEN "warning"
                                  ELSE IF failed THEN "error" ELSE "rows"]
  /\ rpc' = [rpc EXCEPT ![s] = "idle"]
  /\ UNCHANGED << now, ticks, last_update_timestamp, store,
                  data_update_started, data_update_thread, data_update_applied,
                  widget, rerun, clears >>

\* Time passes between script runs.
Tick(d) ==
  /\ ticks < MaxTicks
  /\ \A s \in Sessions : rpc[s] = "idle" /\ ~rerun[s]
  /\ now' = now + d
  /\ ticks' = ticks + 1
  /\ UNCHANGED << last_update_timestamp, cache, store, call >>
  /\ UNCHANGED sessionVars

\* The sidebar's defaults: "Single Region" with the first of REGIONS, and
\* the default period.
DefaultSelection == [regions |-> <<"North Scotland">>, start |-> 1, end |-> 1]

\* No function call is running on its own.
NoCall == [fn |-> "none"]

\* The dashboard process right after it started.
InitApp ==
  /\ now = 0
  /\ ticks = 0
  /\ last_update_timestamp = -1
  /\ cache = cache_clear
  /\ store = [t \in Tables |-> {}]
  /\ data_update_started = [s \in Sessions |-> FALSE]
  /\ data_update_thread = [s \in Sessions |-> NoThread]
  /\ data_update_applied = [s \in Sessions |-> FALSE]
  /\ last_selected_regions = [s \in Sessions |-> None]
  /\ last_start_date = [s \in Sessions |-> None]
  /\ last_end_date = [s \in Sessions |-> None]
  /\ queued_selection = [s \in Sessions |-> None]
  /\ widget = [s \in Sessions |-> DefaultSelection]
  /\ rpc = [s \in Sessions |-> "idle"]
  /\ rerun = [s \in Sessions |-> FALSE]
  /\ clears = [s \in Sessions |-> 0]
  /\ obs = [s \in Sessions |-> NoObs]

Init == InitApp /\ call = NoCall

\* The clock's steps: one time-to-live of the range fetchers, one update
\* interval.
ClockSteps == {TTL_RANGE, UpdateInterval}

\* ---- the whole system
Next ==
  \/ \E d \in ClockSteps : Tick(d)
  \/ \E s \in Sessions, sel \in Selections : RenderGate(s, sel)
  \/ \E s \in Sessions, ok \in BOOLEAN : RenderBody(s, ok)
  \/ \E s \in Sessions : PipelineStart(s)
  \/ \E s \in Sessions, r \in CheckResults : CheckFreshness(s, r)
  \/ \E s \in Sessions, r \in FetchResults : Fetch(s, r)
  \/ \E s \in Sessions, r \in NormalizeResults, n \in 1..MaxBatches :
       Normalize(s, r, n)
  \/ \E s \in Sessions, r \in UploadResults : Upload(s, r)

Spec == Init /\ [][Next]_vars

\* ---- two sessions, the clock and the caches.  Nobody changes the
\* sidebar; the carbon and weather gates find the store up to date or fail
\* and the demand request fails, so that no pipeline uploads.
NextGate ==
  \/ \E d \in ClockSteps : Tick(d)
  \/ \E s \in Sessions : RenderGate(s, DefaultSelection)
  \/ \E s \in Sessions, ok \in BOOLEAN : RenderBody(s, ok)
  \/ \E s \in Sessions : PipelineStart(s)
  \/ \E s \in Sessions, r \in {"present", "store_error"} : CheckFreshness(s, r)
  \/ \E s \in Sessions : Fetch(s, "fail")

SpecGate == Init /\ [][NextGate]_vars

\* ---- one session changing its selection, and its refresh thread on
\* every path through the three pipelines; the clock stands still.
NextSession ==
  \/ \E sel \in Selections : RenderGate("s1", sel)
  \/ \E ok \in BOOLEAN : RenderBody("s1", ok)
  \/ PipelineStart("s1")
  \/ \E r \in CheckResults : CheckFreshness("s1", r)
  \/ \E r \in FetchResults : Fetch("s1", r)
  \/ \E r \in NormalizeResults, n \in 1..MaxBatches : Normalize("s1", r, n)
  \/ \E r \in UploadResults : Upload("s1", r)

SpecSession == Init /\ [][NextSession]_vars

\* ---- a session that changes its selection beside a session that opened
\* the dashboard and keeps the defaults; the clock steps by the update
\* interval, so that the first session's gate may fire on a later run, when
\* it has a last-confirmed selection.  No pipeline uploads.
NextQueue ==
  \/ Tick(UpdateInterval)
  \/ \E sel \in Selections : RenderGate("s1", sel)
  \/ RenderGate("s2", DefaultSelection)
  \/ \E s \in Sessions, ok \in BOOLEAN : RenderBody(s, ok)
  \/ PipelineStart("s1")
  \/ CheckFreshness("s1", "present")
  \/ Fetch("s1", "fail")

SpecQueue == Init /\ [][NextQueue]_vars

\* ---- two sessions on the default selection, with the memoized functions
\* observed; the clock steps by one second and by one second less than the
\* range fetchers' time-to-live, so that script runs fall inside the
\* window, on its end and after it.
InitCache == InitApp /\ call = cache_data_log

NextCache ==
  \/ \E d \in {1, TTL_RANGE - 1} : Tick(d)
  \/ \E s \in Sessions : RenderGate(s, DefaultSelection)
  \/ \E s \in Sessions, ok \in BOOLEAN : RenderBody(s, ok)
  \/ \E s \in Sessions : PipelineStart(s)
  \/ \E s \in Sessions : CheckFreshness(s, "present")
  \/ \E s \in Sessions : Fetch(s, "fail")

SpecCache == InitCache /\ [][NextCache]_vars

\* ---- one session that picks the same two regions in either order, with
\* the memoized functions observed; the clock stands still and no pipeline
\* uploads.
NextOrder ==
  \/ \E sel \in {DefaultSelection} \cup ReorderedSelections : RenderGate("s1", sel)
  \/ \E ok \in BOOLEAN : RenderBody("s1", ok)
  \/ PipelineStart("s1")
  \/ CheckFreshness("s1", "present")
  \/ Fetch("s1", "fail")

SpecOrder == InitCache /\ [][NextOrder]_vars

\* ------------------------------------------------------ paginated reads
\* The rows a query matches, in the order the query asks for (ascending
\* datetime): a row is told by its rank in that order.
QueryRows(n) == [i \in 1..n |-> i]

\* query_builder.range(lo, hi).execute(): rows lo..hi of the result, counted
\* from 0, both ends included.
range(rows, lo, hi) ==
  IF lo >= Len(rows) THEN << >>
  ELSE SubSeq(rows, lo + 1, IF hi + 1 < Len(rows) THEN hi + 1 ELSE Len(rows))

\* loaders.py 18: the page just read was the last one.
last_page_Leq(resp) == Len(resp) <= PAGE_SIZE
last_page(resp) == Len(resp) < PAGE_SIZE

\* _fetch_all_pages(_supabase, table, query_builder) called on a query that
\* matches n rows (loaders.py 10-11).
fetch_all_pages_call(n) ==
  [ fn       |-> "_fetch_all_pages",
    n        |-> n,       \* rows the query matches
    offset   |-> 0,
    all_data |-> << >>,
    requests |-> 0,       \* page requests sent
    returned |-> FALSE ]

\* One turn of the loop `while True` (loaders.py 13-20), and the return
\* (22), when the query matches `rows` at the time of the page request.
fetch_all_pages_page(c, rows) ==
  LET resp == range(rows, c.offset, c.offset + PAGE_SIZE - 1)
      c1   == [c EXCEPT !.requests = @ + 1]
  IN  IF resp = << >> THEN [c1 EXCEPT !.returned = TRUE]
      ELSE LET c2 == [c1 EXCEPT !.all_data = @ \o resp]
           IN  IF last_page(resp) THEN [c2 EXCEPT !.returned = TRUE]
               ELSE [c2 EXCEPT !.offset = @ + PAGE_SIZE]

\* The turn on a query whose n rows do not change.
fetch_all_pages_turn(c) == fetch_all_pages_page(c, QueryRows(c.n))

PageRequest ==
  /\ call.fn = "_fetch_all_pages"
  /\ ~call.returned
  /\ call' = fetch_all_pages_turn(call)
  /\ UNCHANGED appVars

\* ---- _fetch_all_pages alone, on every row count up to MaxRows; the store
\* does not change during the read.
InitPages == InitApp /\ call \in {fetch_all_pages_call(n) : n \in 0..MaxRows}

NextPages == PageRequest

SpecPages == InitPages /\ [][NextPages]_vars

\* ---- a range read beside the refresh thread's upserts
\* The rows in range when the read begins have the even keys 2, 4, .. 2n;
\* the keys the refresh may insert meanwhile are odd: before every row, in
\* the middle of the first page, and right after the first page.
key(i) == 2 * i
InsertKeys == {1, PAGE_SIZE + 1, 2 * PAGE_SIZE + 1}

\* The stored rows with a key below k.
rows_below(n, ins, k) ==
  (IF (k - 1) \div 2 < n THEN (k - 1) \div 2 ELSE n)
    + Cardinality({x \in ins : x < k})

\* .order("datetime", desc=False) on the table holding keys 2..2n and ins:
\* the keys in ascending order.
OrderedRows(n, ins) ==
  [ r \in 1..(n + Cardinality(ins)) |->
      IF \E k \in ins : rows_below(n, ins, k) + 1 = r
      THEN CHOOSE k \in ins : rows_below(n, ins, k) + 1 = r
      ELSE key(r - Cardinality({k \in ins : rows_below(n, ins, k) + 1 < r})) ]

\* The row counts the read starts on: around one page.
LiveCounts == {PAGE_SIZE - 1, PAGE_SIZE, PAGE_SIZE + 1}

\* fetch_*_range (loaders.py 79-130) reading a table the refresh thread
\* upserts into.
fetch_range_call(n) ==
  [ fn       |-> "fetch_range",
    n        |-> n,       \* rows in range when the read begins
    ins      |-> {},      \* keys inserted since
    offset   |-> 0,
    all_data |-> << >>,
    requests |-> 0,
    returned |-> FALSE ]

\* A page request is answered from the table as it is at that moment.
LivePageRequest ==
  /\ call.fn = "fetch_range"
  /\ ~call.returned
  /\ call' = fetch_all_pages_page(call, OrderedRows(call.n, call.ins))
  /\ UNCHANGED appVars

\* A batch of the refresh thread inserts a row with a new key k between two
\* page requests (data_update.py 94-107, 174-187, 269-282).
LiveUpsert(k) ==
  /\ call.fn = "fetch_range"
  /\ ~call.returned
  /\ k \notin call.ins
  /\ call' = [call EXCEPT !.ins = @ \cup {k}]
  /\ UNCHANGED appVars

InitLive == InitApp /\ \E n \in LiveCounts : call = fetch_range_call(n)

NextLive ==
  \/ LivePageRequest
  \/ \E k \in InsertKeys : LiveUpsert(k)

SpecLive == InitLive /\ [][NextLive]_vars

\* ------------------------------------------------------------ date bounds
\* A stored datetime is a number of slots since the start of day 0; day 1 is
\* January 1 and day 36 is February 5.  A date is a day number.
At(day, slot) == day * SlotsPerDay + slot

\* _to_date (loaders.py 44-48): the date of a stored datetime.
to_date(val) == val \div SlotsPerDay

\* Python's max() and min() of a non-empty collection.
max(S) == CHOOSE x \in S : \A y \in S : y <= x
min(S) == CHOOSE x \in S : \A y \in S : x <= y

\* A table as a reader finds it: the datetimes of its rows, or unreadable
\* (the request raises).
Unreadable == [readable |-> FALSE, rows |-> {}]
Readable(rows) == [readable |-> TRUE, rows |-> rows]

\* _get_table_min_max (loaders.py 24-51): the dates of the first and of the
\* last row by datetime; (None, None) when the table has no row or a
\* request raises.
get_table_min_max(tbl) ==
  IF ~tbl.readable THEN [lo |-> None, hi |-> None]
  ELSE IF tbl.rows = {} THEN [lo |-> None, hi |-> None]
  ELSE [lo |-> Some(to_date(min(tbl.rows))), hi |-> Some(to_date(max(tbl.rows)))]

\* loaders.py 71-72 and 75.
bounds_start_Min(mins) == min(mins)
bounds_start(mins) == max(mins)
bounds_end(maxs) == min(maxs)
inverted_Never(start, end) == FALSE
inverted(start, end) == start > end

\* fetch_date_bounds(_supabase) (loaders.py 54-77).  configured: _supabase
\* is not None; tables: the content of each table; today: utcnow().date().
fetch_date_bounds(configured, tables, today) ==
  IF ~configured THEN <<today, today>>
  ELSE LET mm   == [t \in Tables |-> get_table_min_max(tables[t])]
           mins == {mm[t].lo[1] : t \in {x \in Tables : mm[x].lo # None}}
           maxs == {mm[t].hi[1] : t \in {x \in Tables : mm[x].hi # None}}
       IN  IF mins = {} \/ maxs = {} THEN <<today, today>>
           ELSE LET start == bounds_start(mins)
                    end   == bounds_end(maxs)
                IN  IF inverted(start, end) THEN <<today, today>>
                    ELSE <<start, end>>

\* The contents the tables are given: any rows among three datetimes each,
\* or unreadable.
TableContents(t) ==
  {Unreadable} \cup
  { Readable(rows) : rows \in
      SUBSET ( CASE t = "historic_demand"  -> {At(1, 0),  At(10, 1), At(31, 1)}
                 [] t = "carbon_intensity" -> {At(10, 0), At(20, 1), At(36, 0)}
                 [] t = "weather"          -> {At(5, 1),  At(20, 0), At(25, 1)} ) }

Todays == {15, 40}

fetch_date_bounds_call(configured, tables, today) ==
  [ fn         |-> "fetch_date_bounds",
    configured |-> configured,
    tables     |-> tables,
    today      |-> today,
    result     |-> None ]

DateBoundsReturn ==
  /\ call.fn = "fetch_date_bounds"
  /\ call.result = None
  /\ call' = [call EXCEPT !.result =
                Some(fetch_date_bounds(call.configured, call.tables, call.today))]
  /\ UNCHANGED appVars

\* ---- fetch_date_bounds alone, on every content of the three tables.
InitBounds ==
  /\ InitApp
  /\ \E c \in BOOLEAN, d \in TableContents("historic_demand"),
        cb \in TableContents("carbon_intensity"), w \in TableContents("weather"),
        today \in Todays :
        call = fetch_date_bounds_call(c,
                 [t \in Tables |-> CASE t = "historic_demand"  -> d
                                     [] t = "carbon_intensity" -> cb
                                     [] t = "weather"          -> w],
                 today)

NextBounds == DateBoundsReturn

SpecBounds == InitBounds /\ [][NextBounds]_vars

\* ------------------------------------------------------ freshness checker
\* The days of the current month, the first being day 1.  A table's rows of
\* the month are given by how many of them each day has.
MonthDays == 1..MaxDay
RowCounts == {0, 1, 336}
MonthTables(today) == [1..today -> RowCounts]

RECURSIVE row_count(_, _)
row_count(tbl, days) ==
  IF days = {} THEN 0
  ELSE LET d == CHOOSE x \in days : TRUE
       IN  tbl[d] + row_count(tbl, days \ {d})

\* supabase.table(t).select('datetime').gte('datetime', first of month)
\* .execute() (data_update.py 28, 114, 194): one request, no order and no
\* range.  The store answers with at most one page of the matching rows,
\* any of them: the answers are told apart by the days their rows are of.
\* A set of days is such an answer when the rows returned can be one or
\* more rows of each of these days and of no other.
select_answers(tbl, today) ==
  LET total == row_count(tbl, 1..today)
      sent  == IF total < PAGE_SIZE THEN total ELSE PAGE_SIZE
  IN  { days \in SUBSET {d \in 1..today : tbl[d] > 0} :
          /\ Cardinality(days) <= sent
          /\ sent <= row_count(tbl, days) }

\* data_update.py 29-40: existing_dates holds the dates of the rows in the
\* answer; some day from the first of the month through today is not there.
is_data_missing(existing_dates, today) ==
  \E day \in 1..today : day \notin existing_dates

\* is_today_data_missing() / is_weather_data_missing() /
\* is_demand_data_missing() called on table t holding tbl, on day today.
is_data_missing_call(t, tbl, today) ==
  [ fn       |-> "is_data_missing",
    table    |-> t,
    rows     |-> tbl,
    today    |-> today,
    response |-> None,    \* the days of the rows the store returned
    result   |-> None ]

FreshnessQuery ==
  /\ call.fn = "is_data_missing"
  /\ call.response = None
  /\ \E days \in select_answers(call.rows, call.today) :
       call' = [call EXCEPT !.response = Some(days)]
  /\ UNCHANGED appVars

FreshnessReturn ==
  /\ call.fn = "is_data_missing"
  /\ call.response # None
  /\ call.result = None
  /\ call' = [call EXCEPT !.result =
                Some(is_data_missing(call.response[1], call.today))]
  /\ UNCHANGED appVars

\* ---- the freshness checkers alone, on every month so far of every table.
InitFresh ==
  /\ InitApp
  /\ \E t \in Tables, today \in MonthDays :
       \E tbl \in MonthTables(today) : call = is_data_missing_call(t, tbl, today)

NextFresh == FreshnessQuery \/ FreshnessReturn

SpecFresh == InitFresh /\ [][NextFresh]_vars

\* ------------------------------------------------------------ batch upsert
\* A row of a table: its key, the number of a (datetime, region_id) pair,
\* and its value, the columns beside the key.  A table is a set of rows.
\* Row i of a fetch result is the i-th record read from the API: rows that
\* are `period` apart carry the same key.
record(i, period) == [key |-> ((i - 1) % period) + 1, val |-> i]
records_of(n, period) == [i \in 1..n |-> record(i, period)]

\* supabase.table(t).upsert(batch, ignore_duplicates=False).execute()
\* (data_update.py 97, 177, 272) on a batch whose rows have distinct keys:
\* a row of the batch replaces the stored row of its key, or is added.
upsert_rows_Insert(tbl, batch) ==
  tbl \cup {batch[i] : i \in 1..Len(batch)}
upsert_rows(tbl, batch) ==
  LET rows == {batch[i] : i \in 1..Len(batch)}
  IN  {r \in tbl : \A b \in rows : b.key # r.key} \cup rows

\* records[i:i+batch_size] (data_update.py 95)
batch_at(records, i) ==
  SubSeq(records, i + 1,
         IF i + BATCH_SIZE < Len(records) THEN i + BATCH_SIZE ELSE Len(records))

\* The batch loop of a pipeline (data_update.py 93-107, 173-187, 268-282)
\* run twice on the same records, against a store that takes every batch.
upload_call(n, period, tbl) ==
  [ fn      |-> "upload",
    records |-> records_of(n, period),
    table   |-> tbl,
    i       |-> 0,       \* the loop variable
    run     |-> 1,       \* the first or the second upload; 3: both are over
    once    |-> None ]   \* the table after the first upload

UploadBatch ==
  /\ call.fn = "upload"
  /\ call.run <= 2
  /\ call.i < Len(call.records)
  /\ call' = [call EXCEPT !.table = upsert_rows(@, batch_at(call.records, call.i)),
                          !.i = @ + BATCH_SIZE]
  /\ UNCHANGED appVars

UploadEnd ==
  /\ call.fn = "upload"
  /\ call.run <= 2
  /\ call.i >= Len(call.records)
  /\ call' = [call EXCEPT !.run = @ + 1, !.i = 0,
                          !.once = IF call.run = 1 THEN Some(call.table) ELSE @]
  /\ UNCHANGED appVars

\* The fetch results uploaded: their lengths, around one and two batches.
RecordCounts == {0, 1, 2, 499, 500, 501, 999, 1000, 1001}
\* Keys repeat from one batch to the next, or not at all.
KeyPeriods == {BATCH_SIZE, 2 * BATCH_SIZE + 1}
\* The table before the upload: empty, or holding older rows.
StoredTables == { {}, {[key |-> 1, val |-> 0], [key |-> 1001, val |-> 0]} }

\* ---- the batch loop alone, run twice.
InitUpload ==
  /\ InitApp
  /\ \E n \in RecordCounts, period \in KeyPeriods, tbl \in StoredTables :
       call = upload_call(n, period, tbl)

NextUpload == UploadBatch \/ UploadEnd

SpecUpload == InitUpload /\ [][NextUpload]_vars

\* ------------------------------------------------- batch loop and failures
\* data_update.py 96-107 (176-187, 271-282): what a turn of the loop makes
\* of the batch's result.  The upsert sits in try/except Exception: a
\* duplicate-key error is reported as "already up to date", any other error
\* or error status is printed, and nothing is raised again.
batch_message_Reraise(r) ==
  CASE r = "ok"        -> "uploaded"
    [] r = "duplicate" -> "up_to_date"
    [] r = "error"     -> "raised"
batch_message(r) ==
  CASE r = "ok"        -> "uploaded"
    [] r = "duplicate" -> "up_to_date"
    [] r = "error"     -> "error_printed"

\* The batch loop called on n records, told by their position in `records`.
batch_loop_call(n) ==
  [ fn      |-> "batch_loop",
    n       |-> n,
    i       |-> 0,           \* the loop variable
    sent    |-> << >>,       \* the batches sent: first and last row, result
    table   |-> {},          \* the rows the store has taken
    outcome |-> "running" ]  \* "returned" or "raised" when the loop is over

\* One turn of the loop; the store answers r.
BatchTurn(r) ==
  /\ call.fn = "batch_loop"
  /\ call.outcome = "running"
  /\ call.i < call.n
  /\ LET batch == batch_at(QueryRows(call.n), call.i)
         msg   == batch_message(r)
     IN  call' = [call EXCEPT
           !.sent  = Append(@, [lo |-> batch[1], hi |-> batch[Len(batch)],
                                result |-> r, message |-> msg]),
           !.table = IF r = "ok" THEN @ \cup {batch[k] : k \in 1..Len(batch)}
                     ELSE @,
           !.i     = @ + BATCH_SIZE,
           !.outcome = IF msg = "raised" THEN "raised" ELSE @]
  /\ UNCHANGED appVars

\* range(0, len(records), batch_size) is exhausted: the function returns.
BatchLoopEnd ==
  /\ call.fn = "batch_loop"
  /\ call.outcome = "running"
  /\ call.i >= call.n
  /\ call' = [call EXCEPT !.outcome = "returned"]
  /\ UNCHANGED appVars

\* ---- the batch loop alone, against a store that takes, refuses as
\* duplicate or fails each batch.
InitBatchLoop ==
  /\ InitApp
  /\ \E n \in RecordCounts \ {0} : call = batch_loop_call(n)

NextBatchLoop == (\E r \in UploadResults : BatchTurn(r)) \/ BatchLoopEnd

SpecBatchLoop == InitBatchLoop /\ [][NextBatchLoop]_vars

\* ------------------------------------------------------ one pipeline run
\* data_update.py 1-16: the regions the weather pipeline requests, in order.
REGION_COORDS == 1..MaxRegions

\* The requests one run of pipeline p sends to its API: one (carbon 48,
\* demand 232), or one per region (weather 134-145).
requests_of(p) == IF p = "weather" THEN Cardinality(REGION_COORDS) ELSE 1

\* What the fetch stage of pipeline p amounts to once its requests, with
\* results rs, are over.  weather (144-166): a failed regional request is
\* caught and the loop goes on to the next region; the run returns only if
\* no region gave a record.
fetch_result(p, rs) ==
  IF p # "weather" THEN rs[1]
  ELSE IF \E k \in 1..Len(rs) : rs[k] = "ok" THEN "ok"
  ELSE IF \E k \in 1..Len(rs) : rs[k] = "fail" THEN "fail"
  ELSE "empty"

\* update_and_upload_<p>_data() called on its own.
update_and_upload_call(p) ==
  [ fn         |-> "update_and_upload",
    pipeline   |-> p,
    pc         |-> "idle",   \* a phase of Phases
    check      |-> None,     \* what the freshness check / lookup answered
    requests   |-> << >>,    \* the results of the API requests sent
    normalized |-> FALSE,    \* the records are ready for the batch loop
    nb         |-> 0,        \* batches the loop has to send
    upserts    |-> 0,        \* upserts issued
    result     |-> "none" ]  \* "returned" or "raised" when the call is over

\* The call moves to nxt: a phase, or the result it ends with.
run_to(c, nxt) ==
  IF nxt \in {"returned", "raised"}
  THEN [c EXCEPT !.pc = "ended", !.result = nxt]
  ELSE [c EXCEPT !.pc = nxt]

RunStart ==
  /\ call.fn = "update_and_upload"
  /\ call.pc = "idle"
  /\ call' = run_to(call, "checking")
  /\ UNCHANGED appVars

RunCheck(r) ==
  /\ call.fn = "update_and_upload"
  /\ call.pc = "checking"
  /\ call' = run_to([call EXCEPT !.check = Some(r)], after_check(call.pipeline, r))
  /\ UNCHANGED appVars

RunRequest(r) ==
  /\ call.fn = "update_and_upload"
  /\ call.pc = "fetching"
  /\ LET p  == call.pipeline
         rs == Append(call.requests, r)
         c1 == [call EXCEPT !.requests = rs]
     IN  call' = IF Len(rs) < requests_of(p) THEN c1
                 ELSE run_to(c1, after_fetch(p, fetch_result(p, rs)))
  /\ UNCHANGED appVars

RunNormalize(r, n) ==
  /\ call.fn = "update_and_upload"
  /\ call.pc = "normalizing"
  /\ LET nxt == after_normalize(call.pipeline, r)
     IN  call' = IF nxt = "uploading"
                 THEN [call EXCEPT !.pc = "uploading", !.normalized = TRUE,
                                   !.nb = n]
                 ELSE run_to(call, nxt)
  /\ UNCHANGED appVars

RunUpsert(r) ==
  /\ call.fn = "update_and_upload"
  /\ call.pc = "uploading"
  /\ LET c1 == [call EXCEPT !.upserts = @ + 1]
     IN  call' = IF c1.upserts >= call.nb THEN run_to(c1, "returned") ELSE c1
  /\ UNCHANGED appVars

\* ---- one call of each pipeline on its own, on every answer of the store
\* and of the API.
InitRun ==
  /\ InitApp
  /\ \E p \in Pipelines : call = update_and_upload_call(p)

NextRun ==
  \/ RunStart
  \/ \E r \in CheckResults : RunCheck(r)
  \/ \E r \in FetchResults : RunRequest(r)
  \/ \E r \in NormalizeResults, n \in 1..MaxBatches : RunNormalize(r, n)
  \/ \E r \in UploadResults : RunUpsert(r)

SpecRun == InitRun /\ [][NextRun]_vars

\* ------------------------------------------------- a run and the next check
\* The rows of the month after a run of pipeline p on day today whose fetch
\* succeeded and whose batches were all taken by the store.
\* carbon (47-72): the API gives one record per region for the current
\* half-hour, data['data'][0]['from']; new: no row of that half-hour was
\* stored yet.  weather (134-163): the archive API gives every hour of
\* every day from the first of the month through today, for each region,
\* which are the 336 rows of a full day in RowCounts.
rows_after_run(p, tbl, today, new) ==
  IF p = "carbon"
  THEN [tbl EXCEPT ![today] = IF new THEN @ + Cardinality(REGION_COORDS) ELSE @]
  ELSE [d \in 1..today |-> IF tbl[d] < 336 THEN 336 ELSE tbl[d]]

\* update_and_upload_<p>_data() followed, the same day, by the freshness
\* check of the same pipeline.
rerun_call(p, tbl, today) ==
  [ fn      |-> "rerun",
    pipeline|-> p,
    today   |-> today,
    rows    |-> tbl,       \* rows of the month, per day
    pc      |-> "check",   \* check, run, ran, checked, skipped
    first   |-> None,      \* what the run's own check answered
    second  |-> None ]     \* what the check after the run answered

\* data_update.py 44 / 129: the run's own check.
RerunCheck ==
  /\ call.fn = "rerun"
  /\ call.pc = "check"
  /\ \E days \in select_answers(call.rows, call.today) :
       LET missing == is_data_missing(days, call.today)
       IN  call' = [call EXCEPT !.first = Some(missing),
                                !.pc = after_check(call.pipeline,
                                         IF missing THEN "missing" ELSE "present")]
  /\ UNCHANGED appVars

\* The fetch, the cleaning and every batch succeed.
RerunUpload ==
  /\ call.fn = "rerun"
  /\ call.pc = "fetching"
  /\ \E new \in BOOLEAN :
       /\ (call.pipeline = "carbon" /\ ~new) => call.rows[call.today] > 0
       /\ call' = [call EXCEPT !.pc = "ran",
                               !.rows = rows_after_run(call.pipeline, @,
                                                       call.today, new)]
  /\ UNCHANGED appVars

\* The check of the next run.
RerunCheckAgain ==
  /\ call.fn = "rerun"
  /\ call.pc = "ran"
  /\ \E days \in select_answers(call.rows, call.today) :
       call' = [call EXCEPT !.pc = "checked",
                            !.second = Some(is_data_missing(days, call.today))]
  /\ UNCHANGED appVars

InitRerun ==
  /\ InitApp
  /\ \E p \in {"carbon", "weather"}, today \in MonthDays :
       \E tbl \in MonthTables(today) : call = rerun_call(p, tbl, today)

NextRerun == RerunCheck \/ RerunUpload \/ RerunCheckAgain

SpecRerun == InitRerun /\ [][NextRerun]_vars

\* ---------------------------------------------------- demand start date
\* Times of this section are in hours; a date is the hour its day starts at.
HOURS_PER_DAY == 24
\* data_update.py 221, 225: pd.Timedelta(days=90).
FALLBACK_DAYS == 90

\* What the latest-row lookup (212-225) can give: an exception, no row, or
\* the row with the latest datetime t.
LatestLookups(today) ==
  {[kind |-> "error", t |-> 0], [kind |-> "empty", t |-> 0]}
    \cup [kind : {"row"}, t : 0..((today + 1) * HOURS_PER_DAY - 1)]

\* data_update.py 212-225: start_date.
start_date_of(lookup, today) ==
  IF lookup.kind = "row" THEN lookup.t + 1
  ELSE (today - FALLBACK_DAYS) * HOURS_PER_DAY

\* data_update.py 228: the lower bound of SETTLEMENT_DATE in the query is
\* start_date.strftime('%Y-%m-%d') followed by T00:00:00.000Z.
query_lower_bound(start_date) ==
  (start_date \div HOURS_PER_DAY) * HOURS_PER_DAY

start_date_call(today) ==
  [ fn         |-> "start_date",
    today      |-> today,
    pc         |-> "lookup",
    lookup     |-> [kind |-> "none", t |-> 0],
    start_date |-> 0,
    lower      |-> 0 ]

DemandLookup ==
  /\ call.fn = "start_date"
  /\ call.pc = "lookup"
  /\ \E r \in LatestLookups(call.today) :
       call' = [call EXCEPT !.pc = "query", !.lookup = r,
                            !.start_date = start_date_of(r, call.today)]
  /\ UNCHANGED appVars

DemandQuery ==
  /\ call.fn = "start_date"
  /\ call.pc = "query"
  /\ call' = [call EXCEPT !.pc = "queried",
                          !.lower = query_lower_bound(call.start_date)]
  /\ UNCHANGED appVars

InitStartDate ==
  /\ InitApp
  /\ \E today \in MonthDays : call = start_date_call(today)

NextStartDate ==
  \/ DemandLookup
  \/ DemandQuery

SpecStartDate == InitStartDate /\ [][NextStartDate]_vars

\* ------------------------------------------------------------ normalizing
\* A datetime value, as the API sends it, as pandas holds it and as it is
\* handed to the store: its Python type, its form (the layout of the text,
\* or the dtype of the Timestamp) and the instant it tells.
\*   carbon   data['data'][0]['from']       "2024-01-10T12:30Z"
\*   weather  hourly['time'][i]             "2024-01-10T12:00"
\*   demand   record['SETTLEMENT_DATE']     "2024-01-10T00:00:00", "2024-01-10"
ApiLayouts(p) ==
  CASE p = "carbon"  -> {"YYYY-MM-DDTHH:MMZ"}
    [] p = "weather" -> {"YYYY-MM-DDTHH:MM"}
    [] p = "demand"  -> {"YYYY-MM-DDTHH:MM:SS", "YYYY-MM-DD"}
Instants == {0, 1}
ApiDatetimes(p) ==
  [type : {"str"}, form : ApiLayouts(p), t : Instants]

\* pd.to_datetime(text): a Timestamp, timezone-aware when the text ends in Z.
to_datetime(v) ==
  [ type |-> "Timestamp",
    form |-> IF v.form = "YYYY-MM-DDTHH:MMZ"
             THEN "datetime64[ns, UTC]" ELSE "datetime64[ns]",
    t    |-> v.t ]

\* .dt.strftime('%Y-%m-%dT%H:%M:%S'): text again, with no offset.
strftime(v) == [type |-> "str", form |-> "YYYY-MM-DDTHH:MM:SS", t |-> v.t]

\* fillna(0) on one value; None is pandas' missing value.
fillna(v) == IF v = None THEN Some(0) ELSE v

\* data_update.py 82: (forecast.notna() & (forecast != 0)) | index.notna();
\* & binds tighter than |, and NaN != 0 is true.
valid_carbon_AndFirst(r) ==
  r.forecast # None /\ (r.forecast # Some(0) \/ r.index # None)
valid_carbon(r) ==
  (r.forecast # None /\ r.forecast # Some(0)) \/ r.index # None

\* update_and_upload_carbon_data, lines 55-92, on the regions of the payload.
\* With no region the frame has no column and df['forecast'] raises.
normalize_carbon(regions) ==
  IF regions = << >> THEN [outcome |-> "raised", records |-> << >>]
  ELSE LET df  == [i \in 1..Len(regions) |->
                     [regions[i] EXCEPT !.datetime = strftime(to_datetime(@)),
                                        !.gen_wind = fillna(@)]]
           out == SelectSeq(df, valid_carbon)
       IN  IF out = << >> THEN [outcome |-> "returned", records |-> << >>]
           ELSE [outcome |-> "uploading", records |-> out]

\* update_and_upload_weather_data, lines 167-172.
normalize_weather(all_records) ==
  [ outcome |-> "uploading",
    records |-> [i \in 1..Len(all_records) |->
                   [all_records[i] EXCEPT !.datetime = strftime(to_datetime(@)),
                                          !.temperature = fillna(@)]] ]

\* update_and_upload_demand_data, lines 249-267: settlement_date becomes the
\* column datetime, converted by pd.to_datetime and not formatted.
normalize_demand(records) ==
  [ outcome |-> "uploading",
    records |-> [i \in 1..Len(records) |->
                   [ datetime |-> to_datetime(records[i].settlement_date),
                     nd       |-> fillna(records[i].nd) ]] ]

\* What the APIs answer, record by record.  The carbon payload carries one
\* 'from' for all its regions.
CarbonRegions(from) ==
  [ datetime : {from}, forecast : {None, Some(0), Some(120)},
    index : {None, Some("low")}, gen_wind : {None, Some(30)} ]
WeatherRecords ==
  [datetime : ApiDatetimes("weather"), temperature : {None, Some(5)}]
DemandRecords ==
  [settlement_date : ApiDatetimes("demand"), nd : {None, Some(30000)}]

\* The payloads of up to MaxFetched records; the weather and the demand
\* pipeline return before normalizing when they fetched none.
SeqsOf(S, lo) == UNION {[1..n -> S] : n \in lo..MaxFetched}
Payloads(p) ==
  CASE p = "carbon"  -> UNION {SeqsOf(CarbonRegions(from), 0) :
                                 from \in ApiDatetimes("carbon")}
    [] p = "weather" -> SeqsOf(WeatherRecords, 1)
    [] p = "demand"  -> SeqsOf(DemandRecords, 1)

normalize_call(p, fetched) ==
  [ fn       |-> "normalize",
    pipeline |-> p,
    fetched  |-> fetched,
    outcome  |-> "none",     \* "raised", "returned" or "uploading"
    records  |-> << >> ]     \* the rows handed to the batch loop

NormalizeReturn ==
  /\ call.fn = "normalize"
  /\ call.outcome = "none"
  /\ LET res == CASE call.pipeline = "carbon"  -> normalize_carbon(call.fetched)
                  [] call.pipeline = "weather" -> normalize_weather(call.fetched)
                  [] call.pipeline = "demand"  -> normalize_demand(call.fetched)
     IN  call' = [call EXCEPT !.outcome = res.outcome, !.records = res.records]
  /\ UNCHANGED appVars

\* ---- the normalizing stage of each pipeline alone, on every payload.
InitNormalize ==
  /\ InitApp
  /\ \E p \in Pipelines : \E fetched \in Payloads(p) :
       call = normalize_call(p, fetched)

NextNormalize == NormalizeReturn

SpecNormalize == InitNormalize /\ [][NextNormalize]_vars

\* ------------------------------------------------------------- the claims
\* A step of RenderGate(s) / RenderBody(s), told by what it changes.
GateStep(s) ==
  rpc[s] = "idle" /\ (rpc'[s] = "body" \/ clears'[s] # clears[s])
BodyStep(s) == rpc[s] = "body" /\ rpc'[s] = "idle"

\* Some refresh thread of the process is alive.
Refreshing == \E x \in Sessions : is_alive(data_update_thread[x])

\* The last-confirmed selection of session s, when there is one.
LastSelection(s) ==
  [ regions |-> last_selected_regions[s][1],
    start   |-> last_start_date[s][1],
    end     |-> last_end_date[s][1] ]


\* C1: in a session that started a refresh, the caches are cleared and the
\* re-render is forced exactly once per completed cycle.  The session has
\* cleared once if its applied flag is set and never otherwise; the render
\* that finds the session's thread finished and not yet applied clears the
\* caches, sets the flag and reruns, and no other render clears or reruns.
C1_ClearedOncePerCycle ==
  /\ [](\A s \in Sessions :
          /\ clears[s] = IF data_update_applied[s] THEN 1 ELSE 0
          /\ data_update_applied[s] => data_update_started[s]
          /\ rerun[s] => data_update_applied[s])
  /\ [][\A s \in Sessions :
          GateStep(s) =>
            LET finished == /\ data_update_started[s]
                            /\ ~is_alive(data_update_thread[s])
                            /\ ~data_update_applied[s]
            IN  IF finished
                THEN /\ cache' = cache_clear
                     /\ clears'[s] = clears[s] + 1
                     /\ data_update_applied'[s]
                     /\ rerun'[s]
                ELSE /\ clears'[s] = clears[s]
                     /\ ~rerun'[s]
                     /\ cache' = cache]_vars

\* A render after the forced one has run in a session whose cycle is
\* applied, and the session has cleared the caches once.
C1_Witness ==
  \E s \in Sessions :
    /\ data_update_applied[s] /\ clears[s] = 1
    /\ rpc[s] = "idle" /\ ~rerun[s]
    /\ ~obs[s].forced /\ obs[s].effective # None

\* C2: at most one refresh thread is alive in the process at any time.
C2_AtMostOneThreadAlive ==
  Cardinality({s \in Sessions : is_alive(data_update_thread[s])}) <= 1

\* C3: a render at which a refresh is due (24 hours or more since the last
\* update, or none yet) and no refresh is in flight launches a refresh, also
\* in a session that launched one before.
C3_GateFiresWhenStale ==
  [][\A s \in Sessions :
       ( /\ GateStep(s)
         /\ should_run_update(now, last_update_timestamp, HOURS_INTERVAL)
         /\ ~Refreshing )
       => is_alive(data_update_thread'[s])]_vars


\* C4: launching the refresh never blocks the script: whenever a script run
\* stands before its body (date bounds, selection, range fetch), the body
\* can run at once, whatever state the refresh thread is in.
C4_RenderNeverWaits ==
  \A s \in Sessions :
    rpc[s] = "body" => ENABLED (\E ok \in BOOLEAN : RenderBody(s, ok))

\* The script run that launched the thread (the session's first) has
\* finished its body and the thread has not yet taken a single step.
C4_Witness ==
  \E s \in Sessions :
    /\ rpc[s] = "idle" /\ obs[s].display = "rows"
    /\ data_update_thread[s] = NewThread

C6_EachPipelineRunsOnce ==
  \A s \in Sessions :
    LET t == data_update_thread[s] IN
    /\ \A p \in Pipelines : t.starts[p] <= 1
    /\ t.status = "dead" =>
         \A p \in Pipelines : t.starts[p] = 1 /\ t.pstate[p] = "ended"
    /\ (t.status # "none" /\ \E p \in Pipelines : t.pstate[p] # "ended")
         => is_alive(t)
    /\ rpc[s] = "body" => ENABLED (\E ok \in BOOLEAN : RenderBody(s, ok))
    /\ rpc[s] = "idle" => ENABLED (\E sel \in Selections : RenderGate(s, sel))

\* The carbon call raised and the weather pipeline is uploading.
C6_Witness ==
  \E s \in Sessions :
    LET t == data_update_thread[s] IN
    /\ t.result = "raised"
    /\ t.pstate["carbon"] = "ended"
    /\ t.pstate["weather"] = "uploading"

\* C7: no exception ever escapes a pipeline function: every call of a
\* pipeline ends by returning.
C7_NoExceptionEscapes ==
  \A s \in Sessions : data_update_thread[s].result # "raised"

\* C8: while the session's refresh thread is alive, a script run whose
\* selection differs from the last-confirmed one fetches for the
\* last-confirmed selection and leaves it unchanged.
C8_PreviousSelectionServed ==
  [][\A s \in Sessions :
       ( /\ BodyStep(s)
         /\ is_alive(data_update_thread[s])
         /\ last_selected_regions[s] # None
         /\ widget[s] # LastSelection(s) )
       => /\ obs'[s].effective = Some(LastSelection(s))
          /\ last_selected_regions'[s] = last_selected_regions[s]
          /\ last_start_date'[s] = last_start_date[s]
          /\ last_end_date'[s] = last_end_date[s]]_vars

\* C9: the script run forced by reconciliation fetches for the selection
\* the sidebar holds, the most recently chosen one, and that selection is
\* then the last-confirmed one.
C9_SelectionAppliedAfterRefresh ==
  \A s \in Sessions :
    (obs[s].forced /\ obs[s].effective # None) =>
      /\ obs[s].effective = Some(widget[s])
      /\ last_selected_regions[s] # None
      /\ LastSelection(s) = widget[s]

\* The forced run has fetched rows for a selection that was queued while
\* the refresh ran.
C9_Witness ==
  \E s \in Sessions :
    /\ obs[s].forced /\ obs[s].display = "rows"
    /\ queued_selection[s] = Some(widget[s])
    /\ obs[s].effective = Some(widget[s])
    /\ widget[s] # DefaultSelection

\* C10 as stated: while a refresh is in flight no loader call reads the
\* store, so a script body that runs then leaves the caches as they were.
C10_NoStoreReadDuringRefresh ==
  [][\A s \in Sessions : (BodyStep(s) /\ Refreshing) => cache' = cache]_vars

\* The keys the loaders are called with by the body of session s.
RequestedKeys(s) ==
  {BoundsKey} \cup
  ( IF obs'[s].effective # None /\ Len(obs'[s].effective[1].regions) > 0
    THEN RangeKeys(obs'[s].effective[1]) ELSE {} )

\* C10 amended: while a refresh is in flight a loader call is served from
\* the cache, without a store read, exactly when its key has an entry
\* younger than the function's time-to-live; a call whose key has no entry
\* or an expired one reads the store during the refresh.
C10_CachedWhileFresh ==
  [][\A s \in Sessions :
       (BodyStep(s) /\ Refreshing) =>
         \A k \in CacheKeys :
           IF k \in RequestedKeys(s)
              /\ ~(cache[k] >= 0 /\ now - cache[k] < TTLOf(k))
           THEN cache'[k] = now \/ (k # BoundsKey /\ obs'[s].display = "error")
           ELSE cache'[k] = cache[k]]_vars

\* A refresh thread launched before now is alive and a range fetch has read
\* the store now, after an earlier entry had expired.
C10_Witness ==
  \E s \in Sessions :
    /\ is_alive(data_update_thread[s])
    /\ last_update_timestamp >= 0 /\ last_update_timestamp < now
    /\ cache[CarbonKey(DefaultSelection)] = now
    /\ cache[BoundsKey] >= 0 /\ cache[BoundsKey] < now

\* C11: for a store holding n rows that match the query and not changing
\* during the read, _fetch_all_pages requests the offsets 0, P, 2P, ... and
\* holds the rows before the next offset, in order; it stops at the first
\* page with fewer than P rows, having sent floor(n/P)+1 requests, and
\* returns exactly the n rows, each once, in ascending order.
C11_AllPagesFetched ==
  call.fn = "_fetch_all_pages" =>
    /\ call.requests <= call.n \div PAGE_SIZE + 1
    /\ ~call.returned =>
         /\ call.offset = call.requests * PAGE_SIZE
         /\ call.offset <= call.n
         /\ call.all_data = QueryRows(call.offset)
         /\ ENABLED PageRequest
    /\ call.returned =>
         /\ call.all_data = QueryRows(call.n)
         /\ call.requests = call.n \div PAGE_SIZE + 1

\* 3500 rows were returned after 4 page requests.
C11_Witness ==
  /\ call.fn = "_fetch_all_pages" /\ call.returned
  /\ call.n = 3500 /\ Len(call.all_data) = 3500 /\ call.requests = 4

\* C12: a range fetcher called with parameters for which the cache holds an
\* entry younger than the time-to-live (no invalidation since the entry's
\* store read) does not read the store and leaves the entry; called after
\* the time-to-live has expired it reads the store again.
C12_OneReadPerWindow ==
  [][\A s \in Sessions :
       BodyStep(s) =>
         \A k \in CacheKeys \ {BoundsKey} :
           (k \in RequestedKeys(s) /\ cache[k] >= 0) =>
             IF now - cache[k] < TTL_RANGE
             THEN k \notin call'.reads /\ cache'[k] = cache[k]
             ELSE \/ k \in call'.reads /\ cache'[k] = now
                  \/ obs'[s].display = "error"]_vars

\* A script run was served all its rows from the cache, from entries that
\* a script run at an earlier time had read from the store.
C12_Witness ==
  \E s \in Sessions :
    /\ rpc[s] = "idle" /\ obs[s].display = "rows"
    /\ call.fn = "st.cache_data" /\ call.reads = {}
    /\ \A k \in RangeKeys(DefaultSelection) : cache[k] > 0 /\ cache[k] < now
    /\ cache[BoundsKey] = 0
    /\ \A x \in Sessions : clears[x] = 0

\* The regions of a region tuple, as a set.
RegionSet(t) == {t[i] : i \in 1..Len(t)}

\* C13: the cache key of the region-scoped range fetchers treats the region
\* selection as a set: a call for which the cache holds an unexpired entry
\* of the same function and dates whose regions are the same set, in any
\* order, is a cache hit and reads nothing from the store.
C13_RegionOrderIgnored ==
  [][\A s \in Sessions :
       BodyStep(s) =>
         \A k \in RequestedKeys(s) \ {BoundsKey} :
           ( \E k2 \in CacheKeys :
               /\ k2.fn = k.fn /\ k2.start = k.start /\ k2.end = k.end
               /\ RegionSet(k2.regions) = RegionSet(k.regions)
               /\ cache[k2] >= 0 /\ now - cache[k2] < TTL_RANGE )
           => k \notin call'.reads]_vars

\* C14: the range fetchers never raise: no script run ends in an error
\* because a page request to the store failed.
C14_RangeFetchNeverRaises ==
  \A s \in Sessions : obs[s].display # "error"

\* C20: no step of the system removes a batch from a table, and a step that
\* changes the store is a step of an ingestion pipeline's upload loop: the
\* script's steps (gate, reconciliation, date bounds, range fetch) leave the
\* store as it is.
C20_StoreOnlyGrows ==
  [][/\ \A t \in Tables : store[t] \subseteq store'[t]
     /\ store' # store =>
          \E s \in Sessions, p \in Pipelines :
            /\ data_update_thread[s].pstate[p] = "uploading"
            /\ store' = [store EXCEPT ![TableOf(p)] =
                                        @ \cup {data_update_thread[s].batch + 1}]
     /\ \A s \in Sessions : (GateStep(s) \/ BodyStep(s)) => store' = store]_vars

\* Every table holds two batches and a script run that started after the
\* refresh was reconciled has fetched rows.
C20_Witness ==
  /\ \A t \in Tables : store[t] = {1, 2}
  /\ \E s \in Sessions :
       /\ data_update_applied[s] /\ rpc[s] = "idle" /\ ~obs[s].forced
       /\ obs[s].display = "rows"

\* The dates on which table tbl has a row.
Dates(tbl) == {val \div SlotsPerDay : val \in tbl.rows}

\* Table tbl can be read and has a row.
HasRows(tbl) == tbl.readable /\ tbl.rows # {}

\* A call of fetch_date_bounds with a configured client has returned.
BoundsReturned ==
  call.fn = "fetch_date_bounds" /\ call.configured /\ call.result # None

\* C15: when all three tables are non-empty and readable and the latest of
\* their first dates is not after the earliest of their last dates,
\* fetch_date_bounds returns exactly (latest first date, earliest last date).
C15_BoundsAreIntersection ==
  ( /\ BoundsReturned
    /\ \A t \in Tables : HasRows(call.tables[t]) ) =>
    LET lo == CHOOSE d \in {min(Dates(call.tables[t])) : t \in Tables} :
                \A t \in Tables : min(Dates(call.tables[t])) <= d
        hi == CHOOSE d \in {max(Dates(call.tables[t])) : t \in Tables} :
                \A t \in Tables : d <= max(Dates(call.tables[t]))
    IN  lo <= hi => call.result = Some(<<lo, hi>>)

\* Demand spans January 1 to 31, carbon January 10 to February 5, weather
\* January 5 to 20, and the call returned (January 10, January 20).
C15_Witness ==
  /\ BoundsReturned
  /\ call.tables["historic_demand"].rows = {At(1, 0), At(31, 1)}
  /\ call.tables["carbon_intensity"].rows = {At(10, 0), At(36, 0)}
  /\ call.tables["weather"].rows = {At(5, 1), At(20, 0)}
  /\ call.result = Some(<<10, 20>>)

\* C16: fetch_date_bounds returns (today, today) whenever one of the three
\* tables is empty or unreadable, and whenever the computed start is after
\* the computed end; the pair returned always has start <= end.
C16_FallbackWhenAnyTableMissing ==
  BoundsReturned =>
    /\ (\E t \in Tables : ~HasRows(call.tables[t]))
         => call.result = Some(<<call.today, call.today>>)
    /\ call.result[1][1] <= call.result[1][2]

\* C17 as stated: each of the three tables has a row whose date lies in the
\* range fetch_date_bounds returned.
C17_EveryTableHasRowInBounds ==
  BoundsReturned =>
    \A t \in Tables :
      \E d \in Dates(call.tables[t]) :
        call.result[1][1] <= d /\ d <= call.result[1][2]

\* C17 amended: the pair fetch_date_bounds returns is (today, today), or it
\* has start <= end, start and end are each the date of a stored row, and
\* the range lies between the first and the last date of every table that
\* is readable and has rows; such a table need not have a row in the range.
C17_BoundsWithinEverySpan ==
  BoundsReturned =>
    LET start == call.result[1][1]
        end   == call.result[1][2]
        full  == {t \in Tables : HasRows(call.tables[t])}
    IN  \/ start = call.today /\ end = call.today
        \/ /\ start <= end
           /\ \E t \in full : start \in Dates(call.tables[t])
           /\ \E t \in full : end \in Dates(call.tables[t])
           /\ \A t \in full : /\ min(Dates(call.tables[t])) <= start
                               /\ end <= max(Dates(call.tables[t]))

\* The call returned a range that is not the fallback and in which the
\* demand table, readable and with rows, has no row.
C17_Witness ==
  /\ BoundsReturned
  /\ call.result # Some(<<call.today, call.today>>)
  /\ \A t \in Tables : HasRows(call.tables[t])
  /\ \A d \in Dates(call.tables["historic_demand"]) :
       d < call.result[1][1] \/ d > call.result[1][2]

\* C18: the freshness checker returns true if and only if some day from the
\* first of the month through today has no stored row, however many rows
\* the month holds.
C18_MissingIffSomeDayEmpty ==
  (call.fn = "is_data_missing" /\ call.result # None) =>
    call.result[1] = (\E day \in 1..call.today : call.rows[day] = 0)

\* C19: uploading the same fetch result twice leaves the table with the
\* same rows as uploading it once: at no time does the table hold two rows
\* of one key, and after either upload every key of the fetch result holds
\* the value of the last record that carries it.
C19_UploadIdempotent ==
  call.fn = "upload" =>
    /\ \A r1, r2 \in call.table : r1.key = r2.key => r1 = r2
    /\ call.run >= 2 =>
         \A i \in 1..Len(call.records) :
           (\A j \in (i + 1)..Len(call.records) :
              call.records[j].key # call.records[i].key)
           => {r \in call.once[1] : r.key = call.records[i].key}
                = {call.records[i]}
    /\ call.run = 3 => call.table = call.once[1]

\* 1001 records, the first and the last of them with the same key, were
\* uploaded twice onto a table that held an older row of that key.
C19_Witness ==
  /\ call.fn = "upload" /\ call.run = 3
  /\ Len(call.records) = 1001
  /\ call.records[1].key = call.records[1001].key
  /\ [key |-> 1, val |-> 1001] \in call.table
  /\ Cardinality(call.table) = 501

\* C21: every row a pipeline hands to the store's upsert carries its
\* datetime as text of the form YYYY-MM-DDTHH:MM:SS with no offset.
C21_DatetimeCanonical ==
  (call.fn = "normalize" /\ call.outcome = "uploading") =>
    \A i \in 1..Len(call.records) :
      /\ call.records[i].datetime.type = "str"
      /\ call.records[i].datetime.form = "YYYY-MM-DDTHH:MM:SS"

C23_ClearedOnlyAfterRefresh ==
  [][/\ \A s \in Sessions :
          clears'[s] # clears[s] =>
            /\ GateStep(s)
            /\ data_update_started[s]
            /\ ~Refreshing
     /\ (\A s \in Sessions : ~GateStep(s)) =>
          \A k \in CacheKeys : cache[k] >= 0 => cache'[k] >= 0]_vars

\* C24: the upload loop sends the records in consecutive batches of at most
\* 500; whatever the store answers to a batch (written, duplicate-key
\* conflict, any other failure) the next batch is attempted, the rows of the
\* batches the store took stay in the table, a duplicate-key conflict is
\* reported as already up to date, and the loop ends by returning after the
\* last batch.
C24_FailedBatchSkipped ==
  call.fn = "batch_loop" =>
    /\ call.outcome # "raised"
    /\ \A k \in 1..Len(call.sent) :
         /\ call.sent[k].lo = (k - 1) * BATCH_SIZE + 1
         /\ call.sent[k].hi = IF k * BATCH_SIZE < call.n
                              THEN k * BATCH_SIZE ELSE call.n
         /\ call.sent[k].hi - call.sent[k].lo + 1 <= 500
         /\ call.sent[k].result = "duplicate" =>
              call.sent[k].message = "up_to_date"
    /\ call.table =
         UNION { call.sent[k].lo .. call.sent[k].hi :
                   k \in {x \in 1..Len(call.sent) : call.sent[x].result = "ok"} }
    /\ (call.outcome = "running" /\ call.i < call.n) =>
         \A r \in UploadResults : ENABLED BatchTurn(r)
    /\ call.outcome = "returned" =>
         Len(call.sent) = (call.n + BATCH_SIZE - 1) \div BATCH_SIZE

\* Of the three batches of 1001 records the second failed: the loop
\* returned and the table holds the rows of the first and of the third.
C24_Witness ==
  /\ call.fn = "batch_loop" /\ call.outcome = "returned" /\ call.n = 1001
  /\ Len(call.sent) = 3
  /\ call.sent[1].result = "ok"
  /\ call.sent[2].result = "error"
  /\ call.sent[3].result = "ok"
  /\ call.table = (1..500) \cup {1001}

\* C25: a pipeline run one of whose API requests failed ends with no upsert
\* issued and no request sent again; for the weather pipeline this holds
\* when the request of one region fails.
C25_FailedFetchUploadsNothing ==
  call.fn = "update_and_upload" =>
    /\ Len(call.requests) <= requests_of(call.pipeline)
    /\ (\E k \in 1..Len(call.requests) : call.requests[k] = "fail") =>
         /\ call.upserts = 0
         /\ call.pc \notin {"normalizing", "uploading"}

\* The phases a call may pass from and to.
RunOrder ==
  { <<"idle", "checking">>, <<"checking", "fetching">>, <<"checking", "ended">>,
    <<"fetching", "fetching">>, <<"fetching", "normalizing">>,
    <<"fetching", "ended">>, <<"normalizing", "uploading">>,
    <<"normalizing", "ended">>, <<"uploading", "uploading">>,
    <<"uploading", "ended">> }

\* C27: a pipeline run goes from idle to the freshness check and from there
\* either ends or fetches, normalizes and uploads, in that order.  A carbon
\* or weather run whose check reported no missing day has sent no API
\* request and issued no upsert, and it is over; a run has issued an upsert
\* only after all its requests were sent and its records were normalized.
C27_StagesInOrder ==
  /\ [](call.fn = "update_and_upload" =>
         /\ (call.pipeline # "demand" /\ call.check = Some("present")) =>
              /\ call.requests = << >>
              /\ call.upserts = 0
              /\ call.pc = "ended" /\ call.result = "returned"
         /\ (call.upserts > 0 \/ call.pc = "uploading") =>
              /\ call.check # None
              /\ Len(call.requests) = requests_of(call.pipeline)
              /\ call.normalized
         /\ call.pc \in {"idle", "checking"} =>
              call.requests = << >> /\ call.upserts = 0)
  /\ [][call.fn = "update_and_upload" =>
         /\ <<call.pc, call'.pc>> \in RunOrder
         /\ call'.requests # call.requests => call.pc = "fetching"
         /\ call'.upserts # call.upserts => call.pc = "uploading"]_vars

\* A weather run found a day missing, sent every request, normalized and
\* returned after two upserts.
C27_Witness ==
  /\ call.fn = "update_and_upload" /\ call.pipeline = "weather"
  /\ call.check = Some("missing")
  /\ Len(call.requests) = requests_of("weather")
  /\ call.normalized /\ call.upserts = 2
  /\ call.pc = "ended" /\ call.result = "returned"

\* C26: the demand pipeline queries the API from one hour after the latest
\* stored datetime T, so nothing at or before T is requested again; when the
\* table has no row or the lookup fails, it queries from today minus 90 days.
C26_DemandQueriedAfterLatest ==
  (call.fn = "start_date" /\ call.pc = "queried") =>
    IF call.lookup.kind = "row"
    THEN call.lower = call.lookup.t + 1 /\ call.lower > call.lookup.t
    ELSE call.lower = (call.today - FALLBACK_DAYS) * HOURS_PER_DAY

\* C28: a render of a session whose refresh thread has terminated, with the
\* refresh started and not yet applied, clears the caches, marks the refresh
\* applied and forces a re-render, however the thread's pipelines ended; a
\* render of a session whose thread is alive clears nothing and forces no
\* re-render.
C28_ReconciledOnCompletion ==
  [][\A s \in Sessions : GateStep(s) =>
       /\ (/\ ~is_alive(data_update_thread[s])
           /\ data_update_started[s]
           /\ ~data_update_applied[s]) =>
             /\ cache' = cache_clear
             /\ clears'[s] = clears[s] + 1
             /\ data_update_applied'[s]
             /\ rerun'[s]
             /\ rpc'[s] = "idle"
       /\ is_alive(data_update_thread'[s]) =>
             /\ clears'[s] = clears[s]
             /\ ~rerun'[s]
             /\ cache' = cache
             /\ data_update_applied'[s] = data_update_applied[s]]_vars

\* The session reconciled a refresh whose last pipeline call raised.
C28_Witness ==
  /\ ~is_alive(data_update_thread["s1"])
  /\ data_update_thread["s1"].result = "raised"
  /\ \A p \in Pipelines : data_update_thread["s1"].pstate[p] = "ended"
  /\ data_update_applied["s1"]
  /\ clears["s1"] = 1
  /\ rerun["s1"]

\* C29: a paginated range read during which upserts insert new keys in the
\* range returns no key twice, every row that was in range when the read
\* began, and the rows in ascending order.
C29_LiveReadConsistent ==
  (call.fn = "fetch_range" /\ call.returned) =>
    LET got == {call.all_data[i] : i \in 1..Len(call.all_data)}
    IN  /\ Cardinality(got) = Len(call.all_data)
        /\ \A j \in 1..call.n : key(j) \in got
        /\ \A i \in 1..(Len(call.all_data) - 1) :
             call.all_data[i] <= call.all_data[i + 1]

\* C30: after a carbon or weather run whose fetch succeeded and whose
\* batches were all upserted, the pipeline's freshness check of the same day
\* reports no missing day.
C30_RunThenFresh ==
  (call.fn = "rerun" /\ call.pc = "checked") => call.second = Some(FALSE)

====
